---- MODULE Spec2Model ----
(***************************************************************************)
(* Model of the QR bitmap encoders of plantagochi_server:                  *)
(*   generateQrCArray    (test/get_one_bit_bitmap_from_qr_code_from_url.js)*)
(*   generateQrHexString (the plant server)                                *)
(* Both take the raw buffer `data` and `info.width`, `info.height` that    *)
(* sharp returns, pack the pixels into bytes and format the bytes as text. *)
(* Text is modelled as a sequence of one-character strings.                *)
(*                                                                         *)
(* The second half of the module models the servers around the encoders:   *)
(* the serial link to the hardware (sendData, sendDataToHardware,          *)
(* openPortal), the plant server's set_plant with Firestore and the        *)
(* external APIs, get_from_gemini, and the PUT /plant/:plant_id route.     *)
(***************************************************************************)
EXTENDS Integers, Sequences, FiniteSets, TLC

VARIABLES
    width,      \* info.width of the decoded image
    height,     \* info.height of the decoded image
    data,       \* the raw sample buffer (sample i of the code is data[i+1])
    cDone,      \* generateQrCArray has run on this image
    cBytes,     \* `bytes` of generateQrCArray after its packing loop
    outFile,    \* the text generateQrCArray wrote to outFile
    hexDone,    \* generateQrHexString has run on this image
    hexBytes,   \* `bytes` of generateQrHexString after its packing loop
    hexString,  \* the text generateQrHexString returned
    second      \* a second request has come in (another image was decoded)

\* the state of the encoders
encVars ==
    <<width, height, data, cDone, cBytes, outFile, hexDone, hexBytes, hexString,
      second>>

VARIABLES
    port,       \* `let port` of each server module: "undefined" or "SerialPort"
    written,    \* the lines each module's port.write has been given, in order
    sends,      \* number of calls of sendData / sendDataToHardware so far
    lastSend    \* the last such call: its module, its argument, what it threw

\* the state of the serial links
serialVars == <<port, written, sends, lastSend>>

VARIABLES
    geminiCalls \* the calls of get_from_gemini so far: response and outcome

VARIABLES
    db,         \* the plants collection of Firestore: the document of each id
    setDocs,    \* how many calls of setDoc have completed for each id
    proc        \* the invocations of set_plant, one for each serial message

\* the state of the plant server's set_plant
plantVars == <<db, setDocs, proc>>

VARIABLES
    putDb,      \* the plants collection app.js writes: the document of each id
    req         \* the PUT /plant/:plant_id requests

\* the state of the PUT route
putVars == <<putDb, req>>

\* the state of the servers
serverVars == <<serialVars, geminiCalls, plantVars, putVars>>

vars == <<encVars, serverVars>>

\* the three source files that hold a `let port` and a send function
Modules == {"gochi_hardware_server.js", "app.js", "part_001"}

\* the message of the error the send functions throw
NotInitialized == "Serial port not initialized. Call openPortal() first."

NoSend == [module |-> "none", data |-> <<>>, error |-> "none"]

\* the modules are loaded, openPortal has not run, nothing was sent
SerialIdle ==
    /\ port = [m \in Modules |-> "undefined"]
    /\ written = [m \in Modules |-> <<>>]
    /\ sends = 0
    /\ lastSend = NoSend

\* most serial messages in a behaviour, each starting one set_plant
MaxMessages == 2

Procs == 1 .. MaxMessages

\* plant ids the hardware sends
PlantIds == {"101", "102"}

\* no document, no plant data
NoDoc == [id |-> "none", source |-> "none"]

\* a message that has not arrived
NoProc ==
    [pc |-> "waiting", plant_id |-> "none", found |-> FALSE, api |-> "none",
     plant_data |-> NoDoc, wrote |-> FALSE, sent |-> FALSE, result |-> "none"]

\* an empty collection, no message received
PlantIdle ==
    /\ db = [i \in PlantIds |-> NoDoc]
    /\ setDocs = [i \in PlantIds |-> 0]
    /\ proc = [p \in Procs |-> NoProc]

\* no document built, no document stored
NoDocument == [plant_id |-> "none", ranges |-> <<>>, states |-> <<>>]

\* a request that has not arrived
NoReq ==
    [pc |-> "waiting", plantId |-> "none", exists |-> FALSE, apiCalls |-> 0,
     sets |-> 0, document |-> NoDocument, status |-> 0]

\* an empty collection, no request
PutIdle ==
    /\ putDb = [i \in PlantIds |-> NoDocument]
    /\ req = [q \in {"first", "second"} |-> NoReq]

\* no server is doing anything
ServerIdle ==
    /\ SerialIdle
    /\ geminiCalls = <<>>
    /\ PlantIdle
    /\ PutIdle

(***************************************************************************)
(* Bounds of the model.                                                    *)
(***************************************************************************)
\* widest image
MaxWidth == 9
\* most samples in an image (width * height)
MaxPixels == 18
\* most samples of an image that differ from the image's prevailing sample
MaxOdd == 1
\* most samples missing at the end of a malformed buffer
MaxShort == 1

\* Sample values of a raw one-channel buffer that the model draws from.
Samples == {0, 1, 127, 128, 255}

(***************************************************************************)
(* Integer helpers for the JavaScript operators the loops use.             *)
(***************************************************************************)
\* 1 << n
RECURSIVE Shl1(_)
Shl1(n) == IF n = 0 THEN 1 ELSE 2 * Shl1(n - 1)

\* a | b on non-negative integers
RECURSIVE BitOr(_, _)
BitOr(a, b) ==
    IF a = 0 THEN b
    ELSE IF b = 0 THEN a
    ELSE (IF a % 2 = 1 \/ b % 2 = 1 THEN 1 ELSE 0) + 2 * BitOr(a \div 2, b \div 2)

(***************************************************************************)
(* The packing loops.                                                      *)
(***************************************************************************)
\* slip: a threshold test (`pixel < 128`) in place of `pixel === 0`
IsBelowThreshold(d, idx) == idx < Len(d) /\ d[idx + 1] < 128

\* slip: the polarity inverted, `pixel !== 0`
IsNotBlack(d, idx) == idx < Len(d) /\ d[idx + 1] # 0

\* `pixel === 0` for pixel = data[idx]; a read past the end of the buffer
\* yields undefined, which is not === 0.
IsBlack(d, idx) == idx < Len(d) /\ d[idx + 1] = 0

\* slip: least significant bit first, `1 << (x % 8)`
SetBitLsbFirst(byte, x) == BitOr(byte, Shl1(x % 8))

\* slip: `byte = ...` in place of `byte |= ...`
SetBitAssign(byte, x) == Shl1(7 - (x % 8))

\* slip: the shift one place too far, `1 << (8 - (x % 8))`
SetBitShift8(byte, x) == BitOr(byte, Shl1(8 - (x % 8)))

\* byte |= (1 << (7 - (x % 8)))
SetBit(byte, x) == BitOr(byte, Shl1(7 - (x % 8)))

\* the byte after the `if (pixel === 0)` statement
AfterPixel(d, w, y, x, byte) ==
    IF IsBlack(d, y * w + x) THEN SetBit(byte, x) ELSE byte

\* slip: the flush one column early in each group of 8, `x % 8 === 0`
CArrayFlushEarly(x, w) == x % 8 = 0

\* generateQrCArray: `if (x % 8 === 7)`
CArrayFlush(x, w) == x % 8 = 7

\* slip: the push after the row without its `width % 8 !== 0` test
CArrayRowTailAlways(w) == TRUE

\* generateQrCArray: `if (width % 8 !== 0) bytes.push(byte)` after the row
CArrayRowTail(w) == w % 8 # 0

\* generateQrCArray: the inner loop over x, from column x with running byte `byte`
RECURSIVE CArrayRow(_, _, _, _, _, _)
CArrayRow(d, w, y, x, byte, bytes) ==
    IF x >= w THEN [byte |-> byte, bytes |-> bytes]
    ELSE LET b == AfterPixel(d, w, y, x, byte)
         IN IF CArrayFlush(x, w)
            THEN CArrayRow(d, w, y, x + 1, 0, Append(bytes, b))
            ELSE CArrayRow(d, w, y, x + 1, b, bytes)

\* slip: one running byte carried across the rows (the image packed as a
\* single row of w * h samples)
CArrayPackFlat(d, w, h, y, bytes) ==
    LET r == CArrayRow(d, w * h, 0, 0, 0, bytes)
    IN IF CArrayRowTail(w * h) THEN Append(r.bytes, r.byte) ELSE r.bytes

\* generateQrCArray: the outer loop over y
RECURSIVE CArrayPack(_, _, _, _, _)
CArrayPack(d, w, h, y, bytes) ==
    IF y >= h THEN bytes
    ELSE LET r == CArrayRow(d, w, y, 0, 0, bytes)
         IN CArrayPack(d, w, h, y + 1,
                       IF CArrayRowTail(w) THEN Append(r.bytes, r.byte) ELSE r.bytes)

\* slip: the flush of generateQrHexString without `|| x === width - 1`
HexFlushNoRowEnd(x, w) == x % 8 = 7

\* generateQrHexString: `if (x % 8 === 7 || x === width - 1)`
HexFlush(x, w) == x % 8 = 7 \/ x = w - 1

\* slip: the flush without `byte = 0`
RECURSIVE HexRowNoReset(_, _, _, _, _, _)
HexRowNoReset(d, w, y, x, byte, bytes) ==
    IF x >= w THEN [byte |-> byte, bytes |-> bytes]
    ELSE LET b == AfterPixel(d, w, y, x, byte)
         IN IF HexFlush(x, w)
            THEN HexRowNoReset(d, w, y, x + 1, b, Append(bytes, b))
            ELSE HexRowNoReset(d, w, y, x + 1, b, bytes)

\* generateQrHexString: the inner loop over x
RECURSIVE HexRow(_, _, _, _, _, _)
HexRow(d, w, y, x, byte, bytes) ==
    IF x >= w THEN [byte |-> byte, bytes |-> bytes]
    ELSE LET b == AfterPixel(d, w, y, x, byte)
         IN IF HexFlush(x, w)
            THEN HexRow(d, w, y, x + 1, 0, Append(bytes, b))
            ELSE HexRow(d, w, y, x + 1, b, bytes)

\* generateQrHexString: the outer loop over y (the if after the row is empty)
RECURSIVE HexPack(_, _, _, _, _)
HexPack(d, w, h, y, bytes) ==
    IF y >= h THEN bytes
    ELSE HexPack(d, w, h, y + 1, HexRow(d, w, y, 0, 0, bytes).bytes)

(***************************************************************************)
(* Text formatting.                                                        *)
(***************************************************************************)
HexDigits == <<"0", "1", "2", "3", "4", "5", "6", "7",
               "8", "9", "a", "b", "c", "d", "e", "f">>

DecDigits == <<"0", "1", "2", "3", "4", "5", "6", "7", "8", "9">>

\* b.toString(16)
RECURSIVE ToString16(_)
ToString16(b) ==
    IF b < 16 THEN <<HexDigits[b + 1]>>
    ELSE ToString16(b \div 16) \o <<HexDigits[(b % 16) + 1]>>

\* `${n}` for a non-negative integer n
RECURSIVE ToString10(_)
ToString10(n) ==
    IF n < 10 THEN <<DecDigits[n + 1]>>
    ELSE ToString10(n \div 10) \o <<DecDigits[(n % 10) + 1]>>

\* s.padStart(2, "0")
PadStart2(s) == IF Len(s) >= 2 THEN s ELSE <<"0">> \o s

\* `0x${b.toString(16).padStart(2, "0")}`
HexToken(b) == <<"0", "x">> \o PadStart2(ToString16(b))

\* the default varName of generateQrCArray
VarName == <<"q", "r", "_", "b", "i", "t", "m", "a", "p">>

\* slip: the two constants of the header taking each other's value
CArrayHeadSwapped(name, w, h) ==
    <<"#", "d", "e", "f", "i", "n", "e", " ">> \o name
        \o <<"_", "w", "i", "d", "t", "h", " ">> \o ToString10(h) \o <<"\n">>
    \o <<"#", "d", "e", "f", "i", "n", "e", " ">> \o name
        \o <<"_", "h", "e", "i", "g", "h", "t", " ">> \o ToString10(w) \o <<"\n">>
    \o <<"s", "t", "a", "t", "i", "c", " ", "c", "o", "n", "s", "t", " ",
         "u", "n", "s", "i", "g", "n", "e", "d", " ", "c", "h", "a", "r", " ">>
        \o name
        \o <<"[", "]", " ", "P", "R", "O", "G", "M", "E", "M", " ", "=", " ", "{", "\n">>

\* `#define ${varName}_width ${width}\n#define ${varName}_height ${height}\n`
\* followed by `static const unsigned char ${varName}[] PROGMEM = {\n`
CArrayHead(name, w, h) ==
    <<"#", "d", "e", "f", "i", "n", "e", " ">> \o name
        \o <<"_", "w", "i", "d", "t", "h", " ">> \o ToString10(w) \o <<"\n">>
    \o <<"#", "d", "e", "f", "i", "n", "e", " ">> \o name
        \o <<"_", "h", "e", "i", "g", "h", "t", " ">> \o ToString10(h) \o <<"\n">>
    \o <<"s", "t", "a", "t", "i", "c", " ", "c", "o", "n", "s", "t", " ",
         "u", "n", "s", "i", "g", "n", "e", "d", " ", "c", "h", "a", "r", " ">>
        \o name
        \o <<"[", "]", " ", "P", "R", "O", "G", "M", "E", "M", " ", "=", " ", "{", "\n">>

\* slip: the wrap test on i in place of i + 1
WrapBefore(i) == i % 12 = 0

\* `if ((i + 1) % 12 === 0)`
WrapAfter(i) == (i + 1) % 12 = 0

\* bytes.forEach((b, i) => ...), from index i on
RECURSIVE CArrayBody(_, _)
CArrayBody(bytes, i) ==
    IF i >= Len(bytes) THEN <<>>
    ELSE HexToken(bytes[i + 1]) \o <<",", " ">>
         \o (IF WrapAfter(i) THEN <<"\n">> ELSE <<>>)
         \o CArrayBody(bytes, i + 1)

\* the whole text of the header file
CArrayText(name, w, h, bytes) ==
    CArrayHead(name, w, h) \o CArrayBody(bytes, 0) \o <<"}", ";", "\n">>

\* bytes.map(b => `0x..`).join(", "), from index i on
RECURSIVE HexJoin(_, _)
HexJoin(bytes, i) ==
    IF i >= Len(bytes) THEN <<>>
    ELSE (IF i > 0 THEN <<",", " ">> ELSE <<>>)
         \o HexToken(bytes[i + 1]) \o HexJoin(bytes, i + 1)

(***************************************************************************)
(* Images.                                                                 *)
(***************************************************************************)
\* the shapes (width, height) of well-formed images
Shapes ==
    {s \in (1..MaxWidth) \X (1..MaxPixels) : s[1] * s[2] <= MaxPixels}

\* the sets of at most k indices among 1..n
RECURSIVE IndexSets(_, _)
IndexSets(n, k) ==
    IF k = 0 THEN {{}}
    ELSE LET fewer == IndexSets(n, k - 1)
         IN fewer \cup {S \cup {i} : <<S, i>> \in fewer \X (1..n)}

\* the sample that stands out against prevailing sample p: white on black,
\* black on anything else
OddSample(p) == IF p = 0 THEN 255 ELSE 0

\* buffers of n samples: a prevailing sample, with at most MaxOdd samples
\* that stand out against it
Buffers(n) ==
    {[i \in 1..n |-> IF i \in S THEN OddSample(p) ELSE p] :
        <<p, S>> \in Samples \X IndexSets(n, MaxOdd)}

\* slip: the byte array living outside the function, kept from call to call
KeptBytes(earlier) == earlier

\* `let bytes = []`: a call starts from an empty array, whatever the array
\* of an earlier call held
NewBytes(earlier) == <<>>

\* neither encoder has run on the image yet
NothingRun ==
    /\ second = FALSE
    /\ cDone = FALSE
    /\ cBytes = <<>>
    /\ outFile = <<>>
    /\ hexDone = FALSE
    /\ hexBytes = <<>>
    /\ hexString = <<>>

\* The state once sharp has returned { data, info }: an image of some shape
\* with its buffer of width * height samples (the loops read one sample per
\* pixel, data[y * width + x]). What follows in either function is
\* synchronous and holds no statement that throws.
Init ==
    /\ \E s \in Shapes :
        /\ width = s[1]
        /\ height = s[2]
        /\ data \in Buffers(s[1] * s[2])
    /\ NothingRun
    /\ ServerIdle

\* generateQrCArray on the decoded image: pack, format, write the file
generateQrCArray ==
    /\ ~cDone
    /\ cDone' = TRUE
    /\ cBytes' = CArrayPack(data, width, height, 0, NewBytes(cBytes))
    /\ outFile' = CArrayText(VarName, width, height, cBytes')
    /\ UNCHANGED <<width, height, data, hexDone, hexBytes, hexString, second>>
    /\ UNCHANGED serverVars

\* generateQrHexString on the decoded image: pack, format, return the text
generateQrHexString ==
    /\ ~hexDone
    /\ hexDone' = TRUE
    /\ hexBytes' = HexPack(data, width, height, 0, NewBytes(hexBytes))
    /\ hexString' = HexJoin(hexBytes', 0)
    /\ UNCHANGED <<width, height, data, cDone, cBytes, outFile, second>>
    /\ UNCHANGED serverVars

\* the shapes with no row or no column
EmptyShapes ==
    {s \in (0..MaxWidth) \X (0..MaxPixels) : s[1] = 0 \/ s[2] = 0}

\* The encoders handed an image that is no grid: no row or no column, or a
\* buffer that ends up to MaxShort samples before width * height.
InitMalformed ==
    /\ \/ \E s \in EmptyShapes :
            /\ width = s[1]
            /\ height = s[2]
            /\ data = <<>>
       \/ \E s \in Shapes : \E k \in 1..MaxShort :
            /\ k <= s[1] * s[2]
            /\ width = s[1]
            /\ height = s[2]
            /\ data \in Buffers(s[1] * s[2] - k)
    /\ NothingRun
    /\ ServerIdle

Next == generateQrCArray \/ generateQrHexString

Spec == Init /\ [][Next]_vars

SpecMalformed == InitMalformed /\ [][Next]_vars

(***************************************************************************)
(* Two calls in a row.  Each call of an encoder decodes its own image      *)
(* (sharp ... toBuffer) and packs it; what the earlier call produced is    *)
(* still in memory when the later one runs.                                *)
(***************************************************************************)
MaxCallPixels == 2

CallShapes == {s \in Shapes : s[1] * s[2] <= MaxCallPixels}

InitCalls ==
    /\ \E s \in CallShapes :
        /\ width = s[1]
        /\ height = s[2]
        /\ data \in Buffers(s[1] * s[2])
    /\ NothingRun
    /\ ServerIdle

\* the image of the second call is decoded:
\* `const { data, info } = await sharp(buffer)...toBuffer(...)`
toBuffer ==
    /\ ~second
    /\ cDone \/ hexDone
    /\ second' = TRUE
    /\ \E s \in CallShapes :
        /\ width' = s[1]
        /\ height' = s[2]
        /\ data' \in Buffers(s[1] * s[2])
    /\ cDone' = FALSE
    /\ hexDone' = FALSE
    /\ UNCHANGED <<cBytes, outFile, hexBytes, hexString>>
    /\ UNCHANGED serverVars

NextCalls == generateQrCArray \/ generateQrHexString \/ toBuffer

SpecCalls == InitCalls /\ [][NextCalls]_vars

(***************************************************************************)
(* The serial link.  Each of the three modules keeps its own `port`, set   *)
(* by its openPortal, and a function that writes one line to it.           *)
(***************************************************************************)
\* most calls of the send functions in a behaviour
MaxSends == 3

\* arguments the send functions are called with
SendTexts == {<<>>, <<"7">>, <<"0", "x", "f", "f">>}

\* the encoders are not part of a run of the servers
EncIdle ==
    /\ width = 1
    /\ height = 1
    /\ data = <<255>>
    /\ NothingRun

\* slip: the send functions without their guard
NoPortNever(p) == FALSE

\* `if (!port)`
NoPort(p) == p = "undefined"

\* `data + "\n"`
Line(d) == d \o <<"\n">>

\* the body the send functions share: throw without a port, else write a line
Send(m, d) ==
    /\ sends' = sends + 1
    /\ IF NoPort(port[m])
       THEN /\ lastSend' = [module |-> m, data |-> d, error |-> NotInitialized]
            /\ written' = written
       ELSE /\ lastSend' = [module |-> m, data |-> d, error |-> "none"]
            /\ written' = [written EXCEPT ![m] = Append(@, Line(d))]
    /\ port' = port

\* `port = new SerialPort(...)` of a module's openPortal
openPortal ==
    /\ \E m \in Modules : port' = [port EXCEPT ![m] = "SerialPort"]
    /\ UNCHANGED <<written, sends, lastSend>>
    /\ UNCHANGED <<encVars, geminiCalls, plantVars, putVars>>

\* gochi_hardware_server.js: sendData(data)
sendData ==
    /\ sends < MaxSends
    /\ \E d \in SendTexts : Send("gochi_hardware_server.js", d)
    /\ UNCHANGED <<encVars, geminiCalls, plantVars, putVars>>

\* app.js and part_001: sendDataToHardware(data)
sendDataToHardware ==
    /\ sends < MaxSends
    /\ \E m \in {"app.js", "part_001"} : \E d \in SendTexts : Send(m, d)
    /\ UNCHANGED <<encVars, geminiCalls, plantVars, putVars>>

InitSerial == EncIdle /\ ServerIdle

NextSerial == openPortal \/ sendData \/ sendDataToHardware

SpecSerial == InitSerial /\ [][NextSerial]_vars

(***************************************************************************)
(* JavaScript values and JSON.parse.  A scalar is undefined, null, a       *)
(* number or a string; a parsed value is a scalar or an object whose       *)
(* members are scalars.  Numbers are kept in tenths, so that 2.5 is a      *)
(* value.  JSON.parse is modelled on the texts the model draws from: null, *)
(* a number with at most one decimal, a string without escapes, and an     *)
(* object of such members; every other text is a SyntaxError.              *)
(***************************************************************************)
Undefined == [type |-> "undefined", num |-> 0, str |-> <<>>]
Null == [type |-> "null", num |-> 0, str |-> <<>>]
Number(tenths) == [type |-> "number", num |-> tenths, str |-> <<>>]
String(chars) == [type |-> "string", num |-> 0, str |-> chars]

\* a scalar as a parsed value
Scalar(v) == [type |-> v.type, num |-> v.num, str |-> v.str, members |-> <<>>]
\* an object with the members ms, each [key |-> text, val |-> scalar]
Object(ms) == [type |-> "object", num |-> 0, str |-> <<>>, members |-> ms]
\* JSON.parse threw a SyntaxError
SyntaxError == [type |-> "SyntaxError", num |-> 0, str |-> <<>>, members |-> <<>>]

IsSpace(c) == c = " " \/ c = "\n"

\* String.prototype.trim
RECURSIVE Trim(_)
Trim(t) ==
    IF Len(t) = 0 THEN t
    ELSE IF IsSpace(t[1]) THEN Trim(Tail(t))
    ELSE IF IsSpace(t[Len(t)]) THEN Trim(SubSeq(t, 1, Len(t) - 1))
    ELSE t

IsDigit(c) == c \in {"0", "1", "2", "3", "4", "5", "6", "7", "8", "9"}

DigitOf(c) == CHOOSE i \in 0 .. 9 : DecDigits[i + 1] = c

\* the value of a text of digits
RECURSIVE Digits(_)
Digits(t) ==
    IF Len(t) = 0 THEN 0
    ELSE 10 * Digits(SubSeq(t, 1, Len(t) - 1)) + DigitOf(t[Len(t)])

AllDigits(t) == Len(t) > 0 /\ \A i \in 1 .. Len(t) : IsDigit(t[i])

\* digits, or digits "." digit: the number in tenths, -1 where t is neither
Unsigned(t) ==
    IF AllDigits(t) THEN 10 * Digits(t)
    ELSE IF /\ Len(t) >= 3
            /\ t[Len(t) - 1] = "."
            /\ AllDigits(SubSeq(t, 1, Len(t) - 2))
            /\ IsDigit(t[Len(t)])
         THEN 10 * Digits(SubSeq(t, 1, Len(t) - 2)) + DigitOf(t[Len(t)])
         ELSE -1

\* a JSON scalar: null, a number, a string
ParseScalar(t) ==
    IF t = <<"n", "u", "l", "l">> THEN Scalar(Null)
    ELSE IF Len(t) >= 2 /\ t[1] = "\"" /\ t[Len(t)] = "\""
                        /\ \A i \in 2 .. (Len(t) - 1) : t[i] # "\""
         THEN Scalar(String(SubSeq(t, 2, Len(t) - 1)))
    ELSE IF Len(t) >= 1 /\ t[1] = "-"
         THEN IF Unsigned(Tail(t)) >= 0 THEN Scalar(Number(0 - Unsigned(Tail(t))))
              ELSE SyntaxError
    ELSE IF Unsigned(t) >= 0 THEN Scalar(Number(Unsigned(t)))
    ELSE SyntaxError

\* the first place from `from` on where t holds the character c; 0 if none
FirstIndex(t, c, from) ==
    LET at == {i \in from .. Len(t) : t[i] = c}
    IN IF at = {} THEN 0 ELSE CHOOSE i \in at : \A j \in at : i <= j

\* the members between the braces of an object: "key": scalar, ...
RECURSIVE ParseMembers(_, _)
ParseMembers(t, ms) ==
    IF Len(t) = 0 \/ t[1] # "\"" \/ FirstIndex(t, "\"", 2) = 0 THEN SyntaxError
    ELSE LET keyEnd == FirstIndex(t, "\"", 2)
             key == SubSeq(t, 2, keyEnd - 1)
             colon == Trim(SubSeq(t, keyEnd + 1, Len(t)))
         IN IF Len(colon) = 0 \/ colon[1] # ":" THEN SyntaxError
            ELSE LET rest == Trim(Tail(colon))
                     valEnd ==
                         IF Len(rest) > 0 /\ rest[1] = "\""
                         THEN IF FirstIndex(rest, "\"", 2) = 0 THEN Len(rest)
                              ELSE FirstIndex(rest, "\"", 2)
                         ELSE IF FirstIndex(rest, ",", 1) = 0 THEN Len(rest)
                              ELSE FirstIndex(rest, ",", 1) - 1
                     v == ParseScalar(Trim(SubSeq(rest, 1, valEnd)))
                     more == Trim(SubSeq(rest, valEnd + 1, Len(rest)))
                     all == Append(ms, [key |-> key,
                                        val |-> [type |-> v.type, num |-> v.num, str |-> v.str]])
                 IN IF v.type = "SyntaxError" THEN SyntaxError
                    ELSE IF Len(more) = 0 THEN Object(all)
                    ELSE IF more[1] = "," THEN ParseMembers(Trim(Tail(more)), all)
                    ELSE SyntaxError

\* JSON.parse(text)
JsonParse(text) ==
    LET t == Trim(text)
    IN IF Len(t) >= 2 /\ t[1] = "{" /\ t[Len(t)] = "}"
       THEN IF Len(Trim(SubSeq(t, 2, Len(t) - 1))) = 0 THEN Object(<<>>)
            ELSE ParseMembers(Trim(SubSeq(t, 2, Len(t) - 1)), <<>>)
       ELSE ParseScalar(t)

\* value.name for a parsed value that is not null: the member of an object
\* that has it (the last one of that name), undefined for every other value
Member(value, name) ==
    LET at == {i \in 1 .. Len(value.members) : value.members[i].key = name}
    IN IF at = {} THEN Undefined
       ELSE value.members[CHOOSE i \in at : \A j \in at : j <= i].val

(***************************************************************************)
(* get_from_gemini of the plant server (app.js 90-120, part_001 209-239).  *)
(* A response of the model is a rejected call, or a response object whose  *)
(* `text` is undefined or a string.  The call asks for application/json    *)
(* under a responseSchema of type object with one optional number `value`, *)
(* so a text is such an object, or a text that is no JSON (cut short, or   *)
(* empty).                                                                 *)
(***************************************************************************)
\* most calls of get_from_gemini in a behaviour
MaxGeminiCalls == 3

GeminiTexts ==
    { <<"{", "\"", "v", "a", "l", "u", "e", "\"", ":", "2", "1", "}", "\n">>,
      <<" ", "{", "\"", "v", "a", "l", "u", "e", "\"", ":", " ", "-", "1", "}">>,
      <<"{", "\"", "v", "a", "l", "u", "e", "\"", ":", "2", ".", "5", "}">>,
      <<"{", "}">>,
      <<"{", "\"", "v", "a", "l", "u", "e", "\"", ":", "2">>,
      <<"2", "1", " ", "C">>,
      <<>> }

\* what `await ai.models.generateContent(...)` can give
GeminiResponses ==
    {[rejects |-> TRUE, text |-> Undefined], [rejects |-> FALSE, text |-> Undefined]}
        \cup {[rejects |-> FALSE, text |-> String(t)] : t \in GeminiTexts}

\* the function returned v
Returned(v) == [threw |-> FALSE, value |-> v]

\* slip: the body of the function without its try / catch
Uncaught(e) == [threw |-> TRUE, value |-> Undefined]

\* `catch (error) { ...; return -1; }`
Caught(e) == Returned(Number(-10))

\* the body of get_from_gemini on a response
GetFromGemini(response) ==
    IF response.rejects THEN Caught("rejected")
    ELSE IF response.text.type # "string" THEN Caught("TypeError")
    ELSE LET jsonResponse == JsonParse(Trim(response.text.str))
         IN IF jsonResponse.type = "SyntaxError" THEN Caught("SyntaxError")
            ELSE IF jsonResponse.type = "null" THEN Caught("TypeError")
            ELSE Returned(Member(jsonResponse, <<"v", "a", "l", "u", "e">>))

\* one call of get_from_gemini
get_from_gemini ==
    /\ Len(geminiCalls) < MaxGeminiCalls
    /\ \E response \in GeminiResponses :
          geminiCalls' = Append(geminiCalls,
                                [response |-> response, result |-> GetFromGemini(response)])
    /\ UNCHANGED <<encVars, serialVars, plantVars, putVars>>

InitGemini == EncIdle /\ ServerIdle

NextGemini == get_from_gemini

SpecGemini == InitGemini /\ [][NextGemini]_vars

(***************************************************************************)
(* set_plant of the plant server (part_001).  The handler of the serial    *)
(* parser starts one invocation for each message and does not await it, so *)
(* invocations interleave at their awaits.  An invocation is at            *)
(*   "getDoc"          await getDoc(plant_object.plant_id.toString())      *)
(*   "get_plant_data"  await get_plant_data(plant_object)                  *)
(*   "get_from_gemini" the awaited get_from_gemini calls and               *)
(*                     get_html_from_url of sections 4.1 to 4.3            *)
(*   "setDoc"          await setDoc(plant_data.id, plant_data)             *)
(*   "generateQr"      await generateQrHexString(qrUrl)                    *)
(* and ends "done" with what it returned, or "rejected" where it threw.    *)
(***************************************************************************)
\* what generateQrHexString can return: "" from its catch, or the text of
\* the bytes it packed
QrStrings == {<<>>, HexJoin(<<128>>, 0), HexJoin(<<255, 0>>, 0)}

\* the invocation p moves on
Step(p, fields) == proc' = [proc EXCEPT ![p] = fields]

\* the invocation p ends with an exception
Rejected(p) == Step(p, [proc[p] EXCEPT !.pc = "done", !.result = "rejected"])

\* `parser.on('data', ...)`: a complete message is parsed and set_plant is
\* started, not awaited
onData ==
    /\ \E p \in Procs : \E id \in PlantIds :
        /\ proc[p].pc = "waiting"
        /\ \A q \in Procs : q < p => proc[q].pc # "waiting"
        /\ Step(p, [proc[p] EXCEPT !.pc = "getDoc", !.plant_id = id])
    /\ UNCHANGED <<db, setDocs>>
    /\ UNCHANGED <<encVars, serialVars, geminiCalls, putVars>>

\* `let plant_data = await getDoc(...)` and the `if (plant_data)` after it
set_plant_getDoc ==
    /\ \E p \in Procs :
        /\ proc[p].pc = "getDoc"
        /\ \/ IF db[proc[p].plant_id] # NoDoc
              THEN Step(p, [proc[p] EXCEPT !.pc = "generateQr", !.found = TRUE,
                                           !.plant_data = db[proc[p].plant_id]])
              ELSE Step(p, [proc[p] EXCEPT !.pc = "get_plant_data"])
           \/ Rejected(p)
    /\ UNCHANGED <<db, setDocs>>
    /\ UNCHANGED <<encVars, serialVars, geminiCalls, putVars>>

\* slip: the catch of get_plant_data throwing the error on
Rethrown(plant, response) == [threw |-> TRUE, data |-> NoDoc]

\* the catch of get_plant_data: `return await get_plant_data_from_gemini(plant)`,
\* whose awaited get_from_gemini calls are its only statements that could
\* throw, and whose object carries `"id": plant.plant_id || ""`
FallBack(plant, response) ==
    [threw |-> GetFromGemini(response).threw,
     data |-> [id |-> plant.plant_id, source |-> "gemini"]]

\* get_plant_data(plant): the data of the external API, or of the fallback
GetPlantData(plant, apiFails, response) ==
    IF apiFails THEN FallBack(plant, response)
    ELSE [threw |-> FALSE, data |-> [id |-> plant.plant_id, source |-> "api"]]

\* `try { house_plant_api_data = await get_plant_data(plant_object) }
\*  catch (error) { return { error: error.message } }`
set_plant_get_plant_data ==
    /\ \E p \in Procs : \E apiFails \in BOOLEAN : \E response \in GeminiResponses :
        /\ proc[p].pc = "get_plant_data"
        /\ LET got == GetPlantData(proc[p], apiFails, response)
               api == IF apiFails THEN "failed" ELSE "ok"
           IN IF got.threw
              THEN Step(p, [proc[p] EXCEPT !.pc = "done", !.api = api, !.result = "error"])
              ELSE Step(p, [proc[p] EXCEPT !.pc = "get_from_gemini", !.api = api,
                                           !.plant_data = got.data])
    /\ UNCHANGED <<db, setDocs>>
    /\ UNCHANGED <<encVars, serialVars, geminiCalls, putVars>>

\* slip: the QR code generated and sent straight after the values
SkipSetDoc == "generateQr"

\* what follows sections 4.1 to 4.4: `await setDoc(plant_data.id, plant_data)`
AfterValues == "setDoc"

\* sections 4.1 to 4.4: the values asked of Gemini, the HTML, plant_data
set_plant_get_from_gemini ==
    /\ \E p \in Procs : \E response \in GeminiResponses :
        /\ proc[p].pc = "get_from_gemini"
        /\ IF GetFromGemini(response).threw
           THEN Rejected(p)
           ELSE Step(p, [proc[p] EXCEPT !.pc = AfterValues])
    /\ UNCHANGED <<db, setDocs>>
    /\ UNCHANGED <<encVars, serialVars, geminiCalls, putVars>>

\* `await setDoc(plant_data.id, plant_data)`: the document is set, or the
\* write fails and set_plant throws
set_plant_setDoc ==
    /\ \E p \in Procs :
        /\ proc[p].pc = "setDoc"
        /\ \/ /\ db' = [db EXCEPT ![proc[p].plant_data.id] = proc[p].plant_data]
              /\ setDocs' = [setDocs EXCEPT ![proc[p].plant_data.id] = @ + 1]
              /\ Step(p, [proc[p] EXCEPT !.pc = "generateQr", !.wrote = TRUE])
           \/ /\ Rejected(p)
              /\ UNCHANGED <<db, setDocs>>
    /\ UNCHANGED <<encVars, serialVars, geminiCalls, putVars>>

\* `one_bit_bitmap_qr_code_string = await generateQrHexString(qrUrl);
\*  sendDataToHardware(one_bit_bitmap_qr_code_string); return {...}`
set_plant_sendDataToHardware ==
    /\ \E p \in Procs : \E qr \in QrStrings :
        /\ proc[p].pc = "generateQr"
        /\ Send("part_001", qr)
        /\ IF NoPort(port["part_001"])
           THEN Rejected(p)
           ELSE Step(p, [proc[p] EXCEPT !.pc = "done", !.sent = TRUE,
                            !.result = IF proc[p].found THEN "loaded" ELSE "created"])
    /\ UNCHANGED <<db, setDocs>>
    /\ UNCHANGED <<encVars, geminiCalls, putVars>>

\* part_001 is loaded: its last statement, `openPortal()`, has set the port
\* and registered the handler
InitPlant ==
    /\ EncIdle
    /\ port = [m \in Modules |-> IF m = "part_001" THEN "SerialPort" ELSE "undefined"]
    /\ written = [m \in Modules |-> <<>>]
    /\ sends = 0
    /\ lastSend = NoSend
    /\ geminiCalls = <<>>
    /\ PlantIdle
    /\ PutIdle

NextPlant ==
    \/ onData
    \/ set_plant_getDoc
    \/ set_plant_get_plant_data
    \/ set_plant_get_from_gemini
    \/ set_plant_setDoc
    \/ set_plant_sendDataToHardware

SpecPlant == InitPlant /\ [][NextPlant]_vars

(***************************************************************************)
(* PUT /plant/:plant_id of app.js, with the helpers it calls.  Its         *)
(* get_from_gemini is the placeholder of app.js, which answers by the      *)
(* first of its keywords that the prompt includes; a prompt is modelled by *)
(* the set of those keywords it includes.                                  *)
(***************************************************************************)
\* the names of EMOTIONAL_STATES, by index
EMOTIONAL_STATES ==
    <<"Normal", "Excited", "Bored", "Depressed", "Sick", "Needs Shower">>

\* `if (prompt.includes(...)) return ...`, in the order of the function
PlaceholderRules ==
    <<
      [includes |-> "ideal tempreture",
       returns |->
        <<"2", "0", "-", "2", "2">>],
      [includes |-> "ideal humidity",
       returns |->
        <<"6", "0", "-", "7", "0", "%">>],
      [includes |-> "ideal moisture",
       returns |->
        <<"3", "-", "5", " ", "(", "o", "n", " ", "a", " ", "m", "o", "i",
            "s", "t", "u", "r", "e", " ", "m", "e", "t", "e", "r", ")">>],
      [includes |-> "ideal light",
       returns |->
        <<"1", "0", "0", "0", "-", "2", "0", "0", "0", " ", "l", "u", "x">>],
      [includes |-> "low tempreture",
       returns |->
        <<"1", "5">>],
      [includes |-> "low humidity",
       returns |->
        <<"4", "0", "%">>],
      [includes |-> "low moisture",
       returns |->
        <<"1">>],
      [includes |-> "low light",
       returns |->
        <<"5", "0", "0", " ", "l", "u", "x">>],
      [includes |-> "high tempreture",
       returns |->
        <<"2", "8">>],
      [includes |-> "high humidity",
       returns |->
        <<"9", "0", "%">>],
      [includes |-> "high moisture",
       returns |->
        <<"7">>],
      [includes |-> "high light",
       returns |->
        <<"3", "0", "0", "0", " ", "l", "u", "x">>],
      [includes |-> "sick state",
       returns |->
        <<"{", "\"", "t", "e", "m", "p", "e", "r", "a", "t", "u", "r", "e",
            "\"", ":", "\"", "B", "e", "l", "o", "w", " ", "1", "5",
            " ", "C", "\"", ",", "\"", "h", "u", "m", "i", "d", "i",
            "t", "y", "\"", ":", "\"", "A", "b", "o", "v", "e", " ",
            "8", "0", "%", "\"", ",", "\"", "m", "o", "i", "s", "t",
            "u", "r", "e", "\"", ":", "\"", "H", "i", "g", "h", " ",
            "(", "7", "+", ")", "\"", ",", "\"", "l", "i", "g", "h",
            "t", "_", "e", "x", "p", "o", "s", "u", "r", "e", "\"",
            ":", "\"", "L", "o", "w", "\"", ",", "\"", "a", "c", "t",
            "i", "o", "n", "\"", ":", "\"", "C", "h", "e", "c", "k",
            " ", "f", "o", "r", " ", "p", "e", "s", "t", "s", ",", " ",
            "i", "s", "o", "l", "a", "t", "e", ",", " ", "a", "p", "p",
            "l", "y", " ", "f", "u", "n", "g", "i", "c", "i", "d", "e",
            ".", "\"", ",", "\"", "e", "m", "o", "t", "i", "o", "n",
            "_", "i", "n", "d", "e", "x", "\"", ":", "4", "}">>],
      [includes |-> "excited state",
       returns |->
        <<"{", "\"", "t", "e", "m", "p", "e", "r", "a", "t", "u", "r", "e",
            "\"", ":", "\"", "2", "0", "-", "2", "2", " ", "C", "\"",
            ",", "\"", "h", "u", "m", "i", "d", "i", "t", "y", "\"",
            ":", "\"", "6", "0", "-", "7", "0", "%", "\"", ",", "\"",
            "m", "o", "i", "s", "t", "u", "r", "e", "\"", ":", "\"",
            "3", "-", "5", "\"", ",", "\"", "l", "i", "g", "h", "t",
            "_", "e", "x", "p", "o", "s", "u", "r", "e", "\"", ":",
            "\"", "1", "0", "0", "0", "-", "2", "0", "0", "0", " ",
            "l", "u", "x", "\"", ",", "\"", "a", "c", "t", "i", "o",
            "n", "\"", ":", "\"", "M", "a", "i", "n", "t", "a", "i",
            "n", " ", "c", "u", "r", "r", "e", "n", "t", " ", "c", "o",
            "n", "d", "i", "t", "i", "o", "n", "s", ".", "\"", ",",
            "\"", "e", "m", "o", "t", "i", "o", "n", "_", "i", "n",
            "d", "e", "x", "\"", ":", "1", "}">>],
      [includes |-> "normal state",
       returns |->
        <<"{", "\"", "t", "e", "m", "p", "e", "r", "a", "t", "u", "r", "e",
            "\"", ":", "\"", "1", "8", "-", "2", "0", " ", "C", "\"",
            ",", "\"", "h", "u", "m", "i", "d", "i", "t", "y", "\"",
            ":", "\"", "5", "0", "-", "6", "0", "%", "\"", ",", "\"",
            "m", "o", "i", "s", "t", "u", "r", "e", "\"", ":", "\"",
            "2", "-", "4", "\"", ",", "\"", "l", "i", "g", "h", "t",
            "_", "e", "x", "p", "o", "s", "u", "r", "e", "\"", ":",
            "\"", "8", "0", "0", "-", "1", "5", "0", "0", " ", "l",
            "u", "x", "\"", ",", "\"", "a", "c", "t", "i", "o", "n",
            "\"", ":", "\"", "C", "o", "n", "t", "i", "n", "u", "e",
            " ", "r", "o", "u", "t", "i", "n", "e", " ", "c", "a", "r",
            "e", ".", "\"", ",", "\"", "e", "m", "o", "t", "i", "o",
            "n", "_", "i", "n", "d", "e", "x", "\"", ":", "0", "}">>]
    >>

\* `return JSON.stringify({ temperature: "Default", ..., emotion_index: 0 })`
PlaceholderDefault ==
    <<"{", "\"", "t", "e", "m", "p", "e", "r", "a", "t", "u", "r", "e",
          "\"", ":", "\"", "D", "e", "f", "a", "u", "l", "t", "\"",
          ",", "\"", "h", "u", "m", "i", "d", "i", "t", "y", "\"",
          ":", "\"", "D", "e", "f", "a", "u", "l", "t", "\"", ",",
          "\"", "m", "o", "i", "s", "t", "u", "r", "e", "\"", ":",
          "\"", "D", "e", "f", "a", "u", "l", "t", "\"", ",", "\"",
          "l", "i", "g", "h", "t", "_", "e", "x", "p", "o", "s", "u",
          "r", "e", "\"", ":", "\"", "D", "e", "f", "a", "u", "l",
          "t", "\"", ",", "\"", "a", "c", "t", "i", "o", "n", "\"",
          ":", "\"", "D", "e", "f", "a", "u", "l", "t", " ", "a",
          "c", "t", "i", "o", "n", "\"", ",", "\"", "e", "m", "o",
          "t", "i", "o", "n", "_", "i", "n", "d", "e", "x", "\"",
          ":", "0", "}">>

\* get_from_gemini(prompt) of app.js
Placeholder(prompt) ==
    LET hits == {i \in 1 .. Len(PlaceholderRules) : PlaceholderRules[i].includes \in prompt}
    IN IF hits = {} THEN PlaceholderDefault
       ELSE PlaceholderRules[CHOOSE i \in hits : \A j \in hits : i <= j].returns

\* ToNumber of a scalar: [nan |-> TRUE] or the number in tenths
ToNumber(v) ==
    CASE v.type = "number" -> [nan |-> FALSE, num |-> v.num]
      [] v.type = "null" -> [nan |-> FALSE, num |-> 0]
      [] v.type = "string" ->
            LET t == Trim(v.str)
                n == ParseScalar(t)
            IN IF Len(t) = 0 THEN [nan |-> FALSE, num |-> 0]
               ELSE IF n.type = "number" THEN [nan |-> FALSE, num |-> n.num]
               ELSE [nan |-> TRUE, num |-> 0]
      [] OTHER -> [nan |-> TRUE, num |-> 0]

\* v < n and v >= n of JavaScript for a scalar v and an integer n
Less(v, n) == ~ToNumber(v).nan /\ ToNumber(v).num < 10 * n
GreaterEq(v, n) == ~ToNumber(v).nan /\ ToNumber(v).num >= 10 * n

emotion_index == <<"e", "m", "o", "t", "i", "o", "n", "_", "i", "n", "d", "e", "x">>

\* `value.name = v`: the member is set on an object; on a number or a string
\* the assignment has no effect
SetMember(value, name, v) ==
    IF value.type # "object" THEN value
    ELSE IF \E i \in 1 .. Len(value.members) : value.members[i].key = name
         THEN Object([i \in 1 .. Len(value.members) |->
                        IF value.members[i].key = name
                        THEN [key |-> name, val |-> v]
                        ELSE value.members[i]])
         ELSE Object(Append(value.members, [key |-> name, val |-> v]))

\* the catch of generatePlantState: the safe default state
SafeDefault ==
    Object(<< [key |-> <<"t", "e", "m", "p", "e", "r", "a", "t", "u", "r", "e">>, val |-> String(<<"U", "n", "k", "n", "o", "w", "n">>)],
              [key |-> <<"h", "u", "m", "i", "d", "i", "t", "y">>, val |-> String(<<"U", "n", "k", "n", "o", "w", "n">>)],
              [key |-> <<"m", "o", "i", "s", "t", "u", "r", "e">>, val |-> String(<<"U", "n", "k", "n", "o", "w", "n">>)],
              [key |-> <<"l", "i", "g", "h", "t", "_", "e", "x", "p", "o", "s", "u", "r", "e">>, val |-> String(<<"U", "n", "k", "n", "o", "w", "n">>)],
              [key |-> <<"a", "c", "t", "i", "o", "n">>, val |-> String(<<"R", "e", "v", "i", "e", "w", " ", "s", "y", "s", "t", "e", "m",
          " ", "l", "o", "g", "s", ".">>)],
              [key |-> emotion_index, val |-> Number(40)] >>)

\* generatePlantState from `JSON.parse(geminiResponse)` on
GeneratePlantState(geminiResponse) ==
    LET stateMap == JsonParse(geminiResponse)
    IN IF stateMap.type = "SyntaxError" THEN SafeDefault
       ELSE IF stateMap.type = "null" THEN SafeDefault
       ELSE IF \/ Less(Member(stateMap, emotion_index), 0)
               \/ GreaterEq(Member(stateMap, emotion_index), Len(EMOTIONAL_STATES))
            THEN SetMember(stateMap, emotion_index, Number(0))
            ELSE stateMap

\* the placeholder's keywords
Keywords == {PlaceholderRules[i].includes : i \in 1 .. Len(PlaceholderRules)}

\* what the House Plants API returns for a plant, as far as the placeholder
\* can tell: none of the keywords in its text, or one of them
ApiDatas == {{}} \cup {{k} : k \in Keywords}

\* `${type} ${field.replace('_', ' ')}` for the three types and four fields,
\* by the keyword it makes the prompt include
RangePrompts ==
    <<"ideal tempreture", "ideal humidity", "ideal moisture", "ideal light",
      "low tempreture", "low humidity", "low moisture", "low light",
      "high tempreture", "high humidity", "high moisture", "high light">>

\* generateEnvironmentalRanges(plantData): the twelve answers
GenerateEnvironmentalRanges(plantData) ==
    [i \in 1 .. Len(RangePrompts) |-> Placeholder(plantData \cup {RangePrompts[i]})]

\* the states the route generates, in its order
StateNames == <<"sick", "normal", "depressed", "bored">>

\* the document the route builds from plantData: the ranges, and the four
\* generated states (the prompt of a state holds the plant data, the states
\* generated so far and `**name** state`, which add none of the keywords)
NewPlantDocument(plantId, plantData) ==
    [plant_id |-> plantId,
     ranges |-> GenerateEnvironmentalRanges(plantData),
     states |-> [i \in 1 .. Len(StateNames) |-> GeneratePlantState(Placeholder(plantData))]]

\* the requests in flight
Requests == {"first", "second"}

\* slip: the 409 answered without `return`
Conflict409NoReturn(r) == [r EXCEPT !.pc = "axios.get", !.exists = TRUE,
                                     !.apiCalls = 1, !.status = 409]

\* `if (docSnapshot.exists) return res.status(409).json(...)`
Conflict409(r) == [r EXCEPT !.pc = "done", !.exists = TRUE, !.status = 409]

ReqStep(q, fields) == req' = [req EXCEPT ![q] = fields]

\* a request arrives and the route calls `plantDocRef.get()`
put_plant ==
    /\ \E q \in Requests : \E id \in PlantIds :
        /\ req[q].pc = "waiting"
        /\ ReqStep(q, [req[q] EXCEPT !.pc = "get", !.plantId = id])
    /\ UNCHANGED putDb
    /\ UNCHANGED <<encVars, serialVars, geminiCalls, plantVars>>

\* `await plantDocRef.get()` returns: 409 for an existing document, else the
\* call of axios.get; or it throws and the catch answers 500
put_plant_get ==
    /\ \E q \in Requests :
        /\ req[q].pc = "get"
        /\ \/ IF putDb[req[q].plantId] # NoDocument
              THEN ReqStep(q, Conflict409(req[q]))
              ELSE ReqStep(q, [req[q] EXCEPT !.pc = "axios.get", !.apiCalls = 1])
           \/ ReqStep(q, [req[q] EXCEPT !.pc = "done", !.status = 500])
    /\ UNCHANGED putDb
    /\ UNCHANGED <<encVars, serialVars, geminiCalls, plantVars>>

\* `await axios.get(...)` returns: the ranges and the states are generated
\* and `plantDocRef.set(newPlantDocument)` is called; or it throws and the
\* catch answers with the status of the API's response, or 500 without one
put_plant_axios ==
    /\ \E q \in Requests :
        /\ req[q].pc = "axios.get"
        /\ \/ \E plantData \in ApiDatas :
                ReqStep(q, [req[q] EXCEPT !.pc = "set", !.sets = @ + 1,
                              !.document = NewPlantDocument(req[q].plantId, plantData)])
           \/ ReqStep(q, [req[q] EXCEPT !.pc = "done", !.status = 404])
           \/ ReqStep(q, [req[q] EXCEPT !.pc = "done", !.status = 500])
    /\ UNCHANGED putDb
    /\ UNCHANGED <<encVars, serialVars, geminiCalls, plantVars>>

\* `await plantDocRef.set(newPlantDocument)` returns and the route answers
\* 201; or it throws and the catch answers 500
put_plant_set ==
    /\ \E q \in Requests :
        /\ req[q].pc = "set"
        /\ \/ /\ putDb' = [putDb EXCEPT ![req[q].plantId] = req[q].document]
              /\ ReqStep(q, [req[q] EXCEPT !.pc = "done", !.status = 201])
           \/ /\ ReqStep(q, [req[q] EXCEPT !.pc = "done", !.status = 500])
              /\ UNCHANGED putDb
    /\ UNCHANGED <<encVars, serialVars, geminiCalls, plantVars>>

InitPut == EncIdle /\ ServerIdle

NextPut == put_plant \/ put_plant_get \/ put_plant_axios \/ put_plant_set

SpecPut == InitPut /\ [][NextPut]_vars

(***************************************************************************)
(* Vocabulary of the claims.                                               *)
(***************************************************************************)
\* ceil(w / 8)
CeilDiv8(w) == (w + 7) \div 8

\* byte i (from 0) of a byte sequence; -1 where the sequence has no such byte
ByteAt(bs, i) == IF i >= 0 /\ i < Len(bs) THEN bs[i + 1] ELSE -1

\* bit k (0 = least significant) of byte b; -1 where b is no byte
Bit(b, k) == IF b < 0 \/ b > 255 THEN -1 ELSE (b \div (2 ^ k)) % 2

\* sample (y, x) of the image
SampleAt(y, x) == data[y * width + x + 1]

\* the coordinates of the image
Rows == 0 .. (height - 1)
Cols == 0 .. (width - 1)

\* the byte sequences the encoders have produced for this image
Packed ==
    (IF cDone THEN {cBytes} ELSE {}) \cup (IF hexDone THEN {hexBytes} ELSE {})

BothDone == cDone /\ hexDone

AllBlack == \A i \in 1 .. Len(data) : data[i] = 0
NoBlack == \A i \in 1 .. Len(data) : data[i] # 0

(***************************************************************************)
(* C1: for every image with width > 0 and height > 0, each packing loop    *)
(* produces exactly height * ceil(width / 8) bytes.                        *)
(***************************************************************************)
C1_Length ==
    \A bs \in Packed :
        (width > 0 /\ height > 0) => Len(bs) = height * CeilDiv8(width)

\* both loops have run on a two-row image whose rows end in a partial byte
\* after a full one
C1_Witness ==
    /\ BothDone
    /\ width > 8 /\ width % 8 # 0 /\ height > 1
    /\ Len(cBytes) = 4

(***************************************************************************)
(* C2: pixel (y, x) is stored at bit 7 - (x mod 8) of byte                 *)
(* y * ceil(width / 8) + floor(x / 8), set iff the sample is 0; the        *)
(* 8 x 1 image with only the leftmost pixel black packs to the byte 0x80.  *)
(***************************************************************************)
C2_BitPosition ==
    \A bs \in Packed :
        /\ \A y \in Rows : \A x \in Cols :
              (Bit(ByteAt(bs, y * CeilDiv8(width) + (x \div 8)), 7 - (x % 8)) = 1)
                  <=> (SampleAt(y, x) = 0)
        /\ (/\ width = 8 /\ height = 1 /\ data[1] = 0
            /\ \A i \in 2 .. 8 : data[i] # 0) => bs = <<128>>

\* both loops have packed the 8 x 1 image whose leftmost pixel alone is black
C2_Witness ==
    /\ BothDone
    /\ width = 8 /\ height = 1
    /\ data[1] = 0 /\ \A i \in 2 .. 8 : data[i] # 0
    /\ cBytes = <<128>> /\ hexBytes = <<128>>

(***************************************************************************)
(* C3: when width is not a multiple of 8, the low 8 - (width mod 8) bits   *)
(* of the last byte of every row are 0; the all-black 5 x 1 image packs to *)
(* the byte 0xF8.                                                          *)
(***************************************************************************)
C3_PaddingZero ==
    \A bs \in Packed :
        /\ (width % 8 # 0) =>
              \A y \in Rows : \A k \in 0 .. (7 - (width % 8)) :
                  Bit(ByteAt(bs, (y + 1) * CeilDiv8(width) - 1), k) = 0
        /\ (width = 5 /\ height = 1 /\ AllBlack) => bs = <<248>>

\* both loops have packed the all-black 5 x 1 image
C3_Witness ==
    /\ BothDone
    /\ width = 5 /\ height = 1 /\ AllBlack
    /\ cBytes = <<248>> /\ hexBytes = <<248>>

(***************************************************************************)
(* C4: a bit is set only for a sample that is exactly 0; every sample in   *)
(* 1..255 (1, 127, 128 and 255 among them) leaves its bit clear.           *)
(***************************************************************************)
C4_OnlyZeroIsForeground ==
    \A bs \in Packed :
        \A y \in Rows : \A x \in Cols :
            (SampleAt(y, x) \in 1 .. 255) =>
                Bit(ByteAt(bs, y * CeilDiv8(width) + (x \div 8)), 7 - (x % 8)) = 0

\* both loops have packed an image of samples 127 around one black pixel
C4_Witness ==
    /\ BothDone
    /\ \E i \in 1 .. Len(data) : data[i] = 127
    /\ \E i \in 1 .. Len(data) : data[i] = 0
    /\ \E i \in 1 .. Len(cBytes) : cBytes[i] # 0

(***************************************************************************)
(* C5: given an image with no row or no column, or a buffer shorter than   *)
(* width * height, an encoder fails instead of returning a byte sequence.  *)
(***************************************************************************)
Malformed == width = 0 \/ height = 0 \/ Len(data) < width * height

C5_FailsFast == Malformed => (~cDone /\ ~hexDone)

(***************************************************************************)
(* C6: the bytes outside [r * ceil(width/8), (r+1) * ceil(width/8)) do not *)
(* change when only the pixels of row r change, and the bytes inside it    *)
(* are the packing of row r alone (each row starts a fresh byte).          *)
(***************************************************************************)
\* the image with each pixel of row r inverted: white for black, black for
\* the rest
InvertRow(r) ==
    SubSeq(data, 1, r * width)
    \o [x \in 1 .. width |-> IF data[r * width + x] = 0 THEN 255 ELSE 0]
    \o SubSeq(data, (r + 1) * width + 1, Len(data))

\* row r of the image
RowOf(r) == SubSeq(data, r * width + 1, (r + 1) * width)

\* bs2 agrees with bs outside the bytes of row r
SameOutsideRow(bs, bs2, r) ==
    /\ Len(bs2) = Len(bs)
    /\ \A i \in 0 .. (Len(bs) - 1) :
          (i < r * CeilDiv8(width) \/ i >= (r + 1) * CeilDiv8(width))
              => ByteAt(bs2, i) = ByteAt(bs, i)

\* the bytes of row r in bs
RowBytes(bs, r) ==
    [j \in 1 .. CeilDiv8(width) |-> ByteAt(bs, r * CeilDiv8(width) + j - 1)]

C6_RowIndependence ==
    BothDone => \A r \in Rows :
        LET other == InvertRow(r)
        IN /\ SameOutsideRow(cBytes, CArrayPack(other, width, height, 0, <<>>), r)
           /\ SameOutsideRow(hexBytes, HexPack(other, width, height, 0, <<>>), r)
           /\ RowBytes(cBytes, r) = CArrayPack(RowOf(r), width, 1, 0, <<>>)
           /\ RowBytes(hexBytes, r) = HexPack(RowOf(r), width, 1, 0, <<>>)

\* both loops have packed a three-row image whose rows end mid-byte and
\* whose middle row alone holds a black pixel
C6_Witness ==
    /\ BothDone
    /\ width = 5 /\ height = 3
    /\ data[8] = 0 /\ \A i \in 1 .. 15 : (i # 8 => data[i] = 255)
    /\ cBytes = <<0, 32, 0>> /\ hexBytes = <<0, 32, 0>>

(***************************************************************************)
(* C7: decoding the packed bytes into a width x height image (bit set ->   *)
(* sample 0, bit clear -> sample 255) and packing that image again yields  *)
(* the same bytes.                                                         *)
(***************************************************************************)
Decode(bs, w, h) ==
    [i \in 1 .. (w * h) |->
        IF Bit(ByteAt(bs, ((i - 1) \div w) * CeilDiv8(w) + (((i - 1) % w) \div 8)),
               7 - (((i - 1) % w) % 8)) = 1
        THEN 0 ELSE 255]

C7_RoundTrip ==
    /\ cDone => CArrayPack(Decode(cBytes, width, height), width, height, 0, <<>>) = cBytes
    /\ hexDone => HexPack(Decode(hexBytes, width, height), width, height, 0, <<>>) = hexBytes

\* both loops have packed a two-row image of grey samples with one black
\* pixel in the second byte of the first row, which decodes to another image
C7_Witness ==
    /\ BothDone
    /\ width = 9 /\ height = 2
    /\ data[9] = 0 /\ \A i \in 1 .. 18 : (i # 9 => data[i] = 127)
    /\ cBytes = <<0, 128, 0, 0>>
    /\ Decode(hexBytes, width, height) # data

(***************************************************************************)
(* C8: an all-black image packs to bytes 0xFF, except that the last byte   *)
(* of each row, when width is not a multiple of 8, has its top width mod 8 *)
(* bits set and the rest 0.                                                *)
(***************************************************************************)
C8_AllForeground ==
    (AllBlack /\ width > 0 /\ height > 0) =>
        \A bs \in Packed :
            /\ Len(bs) = height * CeilDiv8(width)
            /\ \A i \in 0 .. (height * CeilDiv8(width) - 1) :
                  ByteAt(bs, i) =
                      IF width % 8 # 0 /\ (i + 1) % CeilDiv8(width) = 0
                      THEN 256 - 2 ^ (8 - (width % 8))
                      ELSE 255

\* both loops have packed the all-black 9 x 2 image
C8_Witness ==
    /\ BothDone /\ AllBlack
    /\ width = 9 /\ height = 2
    /\ hexBytes = <<255, 128, 255, 128>>

(***************************************************************************)
(* C9: an image without a black sample packs to height * ceil(width / 8)   *)
(* bytes, all 0x00.                                                        *)
(***************************************************************************)
C9_AllBackground ==
    (NoBlack /\ width > 0 /\ height > 0) =>
        \A bs \in Packed :
            /\ Len(bs) = height * CeilDiv8(width)
            /\ \A i \in 0 .. (height * CeilDiv8(width) - 1) : ByteAt(bs, i) = 0

\* both loops have packed a 9 x 2 image of samples 128
C9_Witness ==
    /\ BothDone
    /\ width = 9 /\ height = 2
    /\ \A i \in 1 .. 18 : data[i] = 128
    /\ cBytes = <<0, 0, 0, 0>> /\ hexBytes = <<0, 0, 0, 0>>

(***************************************************************************)
(* C10: the array literal of the header file is one `0xHH` token per byte, *)
(* each followed by a comma and a space, with a newline after every 12th   *)
(* token and nowhere else inside the literal, closed by a brace.           *)
(***************************************************************************)
\* character k (from 1) of text t; "" where t has no such character
CharAt(t, k) == IF k >= 1 /\ k <= Len(t) THEN t[k] ELSE ""

\* the text of the header file after the line that opens the literal
Literal ==
    LET open == CHOOSE k \in 1 .. Len(outFile) : outFile[k] = "{"
    IN SubSeq(outFile, open + 2, Len(outFile))

\* where token i (from 0) starts in the literal: 6 characters a token, and
\* one newline for each 12 tokens before it
TokenAt(i) == 6 * i + (i \div 12) + 1

C10_LiteralFormat ==
    cDone =>
        LET n == Len(cBytes)
            lit == Literal
        IN /\ Len(lit) = 6 * n + (n \div 12) + 3
           /\ \A i \in 0 .. (n - 1) :
                 /\ CharAt(lit, TokenAt(i)) = "0"
                 /\ CharAt(lit, TokenAt(i) + 1) = "x"
                 /\ \E hi \in 0 .. 15 : \E lo \in 0 .. 15 :
                       /\ CharAt(lit, TokenAt(i) + 2) = HexDigits[hi + 1]
                       /\ CharAt(lit, TokenAt(i) + 3) = HexDigits[lo + 1]
                       /\ 16 * hi + lo = cBytes[i + 1]
                 /\ CharAt(lit, TokenAt(i) + 4) = ","
                 /\ CharAt(lit, TokenAt(i) + 5) = " "
           /\ \A k \in 1 .. (Len(lit) - 3) :
                 (CharAt(lit, k) = "\n") <=> (k % 73 = 0)
           /\ CharAt(lit, Len(lit) - 2) = "}"

\* the header file holds a literal of more than 12 tokens, 0x00 and 0x80
\* among them, wrapped after the 12th
C10_Witness ==
    /\ cDone
    /\ Len(cBytes) > 12
    /\ \E i \in 1 .. Len(cBytes) : cBytes[i] = 0
    /\ \E i \in 1 .. Len(cBytes) : cBytes[i] = 128
    /\ CharAt(Literal, 73) = "\n" /\ CharAt(Literal, 74) = "0"
    /\ CharAt(Literal, Len(Literal) - 2) = "}"

(***************************************************************************)
(* C11: the header file holds one width constant and one height constant,  *)
(* whose decimal values are the width and the height of the image, and one *)
(* 0x token for each packed byte; for an 8 x 1 image packed to the byte    *)
(* 0x80 it holds the token 0x80 exactly once.                              *)
(***************************************************************************)
\* the places (from 1) where the text p occurs in the text t
Occurrences(t, p) ==
    {k \in 1 .. (Len(t) - Len(p) + 1) : SubSeq(t, k, k + Len(p) - 1) = p}

\* the value of a decimal digit, -1 for any other character
DigitValue(c) ==
    CASE c = "0" -> 0 [] c = "1" -> 1 [] c = "2" -> 2 [] c = "3" -> 3
      [] c = "4" -> 4 [] c = "5" -> 5 [] c = "6" -> 6 [] c = "7" -> 7
      [] c = "8" -> 8 [] c = "9" -> 9 [] OTHER -> -1

\* the number a text of decimal digits reads as, -1 where it is no number
RECURSIVE DecValue(_)
DecValue(ds) ==
    IF Len(ds) = 0 THEN -1
    ELSE LET last == DigitValue(ds[Len(ds)])
         IN IF last < 0 THEN -1
            ELSE IF Len(ds) = 1 THEN last
            ELSE LET front == DecValue(SubSeq(ds, 1, Len(ds) - 1))
                 IN IF front < 0 THEN -1 ELSE 10 * front + last

\* the value that follows the one occurrence of key in the header file, up
\* to the end of its line; -1 where key does not occur exactly once
ValueOf(key) ==
    LET at == Occurrences(outFile, key)
    IN IF Cardinality(at) # 1 THEN -1
       ELSE LET from == (CHOOSE k \in at : TRUE) + Len(key)
                ends == {k \in from .. Len(outFile) : outFile[k] = "\n"}
            IN IF ends = {} THEN -1
               ELSE LET to == CHOOSE k \in ends : \A j \in ends : k <= j
                    IN DecValue(SubSeq(outFile, from, to - 1))

C11_HeaderContents ==
    cDone =>
        /\ Cardinality(Occurrences(outFile, <<"#", "d", "e", "f", "i", "n", "e", " ">>)) = 2
        /\ ValueOf(VarName \o <<"_", "w", "i", "d", "t", "h", " ">>) = width
        /\ ValueOf(VarName \o <<"_", "h", "e", "i", "g", "h", "t", " ">>) = height
        /\ Cardinality(Occurrences(outFile, <<"0", "x">>)) = Len(cBytes)
        /\ (width = 8 /\ height = 1 /\ cBytes = <<128>>)
              => Cardinality(Occurrences(outFile, <<"0", "x", "8", "0">>)) = 1

\* the header file of an 8 x 1 image whose leftmost pixel alone is black
C11_Witness ==
    /\ cDone
    /\ width = 8 /\ height = 1 /\ cBytes = <<128>>
    /\ Cardinality(Occurrences(outFile, <<"0", "x", "8", "0">>)) = 1

(***************************************************************************)
(* C13: the packing loop of generateQrCArray (flush at x % 8 = 7, and one  *)
(* more flush after a row whose width is no multiple of 8) and the one of  *)
(* generateQrHexString (flush at x % 8 = 7 or at the last pixel of a row)  *)
(* produce the same bytes for the same image.                              *)
(***************************************************************************)
C13_LoopsAgree == BothDone => cBytes = hexBytes

\* both loops have packed an image with a full byte and a partial byte in
\* each row, a black pixel in the partial byte
C13_Witness ==
    /\ BothDone
    /\ width > 8 /\ width % 8 # 0
    /\ \E y \in Rows : \E x \in Cols : x >= 8 /\ SampleAt(y, x) = 0
    /\ Len(cBytes) = 2 * height

(***************************************************************************)
(* C12: an encoder leaves the image it packs unchanged, and the bytes it   *)
(* returns are determined by that image alone: packing an image after      *)
(* another one was packed gives what packing it alone gives, and packing   *)
(* the same image twice gives the same bytes.                              *)
(***************************************************************************)
\* 1 where pixel (y, x) of the w-wide image d is black, 0 where it is not or
\* where the row has no such pixel
PixelBit(d, w, y, x) == IF x < w /\ d[y * w + x + 1] = 0 THEN 1 ELSE 0

\* the bytes of the layout for the w x h image d, written out bit by bit
Layout(d, w, h) ==
    [i \in 1 .. (h * CeilDiv8(w)) |->
        LET y == (i - 1) \div CeilDiv8(w)
            x == 8 * ((i - 1) % CeilDiv8(w))
        IN 128 * PixelBit(d, w, y, x) + 64 * PixelBit(d, w, y, x + 1)
           + 32 * PixelBit(d, w, y, x + 2) + 16 * PixelBit(d, w, y, x + 3)
           + 8 * PixelBit(d, w, y, x + 4) + 4 * PixelBit(d, w, y, x + 5)
           + 2 * PixelBit(d, w, y, x + 6) + PixelBit(d, w, y, x + 7)]

C12_Pure ==
    [][/\ (cDone' /\ ~cDone) =>
            /\ <<width, height, data>>' = <<width, height, data>>
            /\ cBytes' = Layout(data, width, height)
       /\ (hexDone' /\ ~hexDone) =>
            /\ <<width, height, data>>' = <<width, height, data>>
            /\ hexBytes' = Layout(data, width, height)]_vars

\* the second call has packed a 2 x 1 image with both pixels black, after a
\* first call packed some image
C12_Witness ==
    /\ second /\ BothDone
    /\ width = 2 /\ height = 1 /\ AllBlack
    /\ cBytes = <<192>> /\ hexBytes = <<192>>

(***************************************************************************)
(* C14: a call of sendData or sendDataToHardware made while its module's   *)
(* port is not set throws 'Serial port not initialized...' and writes      *)
(* nothing; a call made after openPortal set the port throws nothing and   *)
(* writes exactly its argument followed by one newline.                    *)
(***************************************************************************)
C14_SendGuard ==
    [][sends' # sends =>
         LET c == lastSend'
         IN IF port[c.module] = "undefined"
            THEN /\ c.error = "Serial port not initialized. Call openPortal() first."
                 /\ written' = written
            ELSE /\ c.error = "none"
                 /\ written' = [written EXCEPT
                                   ![c.module] = Append(@, c.data \o <<"\n">>)]]_vars

\* one module has written the line "7\n" after its openPortal, and the last
\* call, in a module whose openPortal has not run, threw
C14_Witness ==
    /\ \E m \in Modules : port[m] = "SerialPort" /\ written[m] = << <<"7", "\n">> >>
    /\ lastSend.module \in Modules
    /\ port[lastSend.module] = "undefined"
    /\ lastSend.error = NotInitialized
    /\ written[lastSend.module] = <<>>

(***************************************************************************)
(* C19: get_from_gemini never throws; it returns -1 when the call fails    *)
(* and when the response carries no text that is JSON, and in every other  *)
(* case it returns the member `value` of the parsed text (undefined where  *)
(* the object has none).                                                   *)
(***************************************************************************)
\* the texts of the model that are JSON, listed by hand
JsonTexts ==
    { <<"{", "\"", "v", "a", "l", "u", "e", "\"", ":", "2", "1", "}", "\n">>,
      <<" ", "{", "\"", "v", "a", "l", "u", "e", "\"", ":", " ", "-", "1", "}">>,
      <<"{", "\"", "v", "a", "l", "u", "e", "\"", ":", "2", ".", "5", "}">>,
      <<"{", "}">> }

\* those of them that parse to an object with a member `value`
ValueTexts ==
    { <<"{", "\"", "v", "a", "l", "u", "e", "\"", ":", "2", "1", "}", "\n">>,
      <<" ", "{", "\"", "v", "a", "l", "u", "e", "\"", ":", " ", "-", "1", "}">>,
      <<"{", "\"", "v", "a", "l", "u", "e", "\"", ":", "2", ".", "5", "}">> }

\* the member `value` each of these carries, in tenths
ValueOfText(t) ==
    CASE t = <<"{", "\"", "v", "a", "l", "u", "e", "\"", ":", "2", "1", "}", "\n">> -> 210
      [] t = <<" ", "{", "\"", "v", "a", "l", "u", "e", "\"", ":", " ", "-", "1", "}">> -> -10
      [] t = <<"{", "\"", "v", "a", "l", "u", "e", "\"", ":", "2", ".", "5", "}">> -> 25
      [] OTHER -> 0

\* the response carries a text that is JSON
Parseable(r) == ~r.rejects /\ r.text.type = "string" /\ r.text.str \in JsonTexts

\* the call returned the number -1
ReturnedMinusOne(c) == c.result.value.type = "number" /\ c.result.value.num = -10

\* the call returned the member `value` of its parsed text
ReturnedValue(c) ==
    IF c.response.text.str \in ValueTexts
    THEN /\ c.result.value.type = "number"
         /\ c.result.value.num = ValueOfText(c.response.text.str)
    ELSE c.result.value.type = "undefined"

Sends(p) == proc'[p].sent /\ ~proc[p].sent

C15_SentAfterStored ==
    [][\A p \in Procs :
         Sends(p) =>
            /\ db[proc[p].plant_data.id] # [id |-> "none", source |-> "none"]
            /\ db' = db
            /\ IF proc[p].found THEN ~proc[p].wrote ELSE proc[p].wrote]_vars

\* one invocation created the document and sent its QR code, a later one
\* found the document and sent the QR code without a write
C15_Witness ==
    \E p, q \in Procs :
        /\ proc[p].sent /\ ~proc[p].found /\ proc[p].wrote
        /\ proc[q].sent /\ proc[q].found /\ ~proc[q].wrote
        /\ Len(written["part_001"]) = 2

(***************************************************************************)
(* C18: get_plant_data does not pass on a failure of the external API: it  *)
(* returns the data get_plant_data_from_gemini makes for the same plant,   *)
(* and set_plant never returns { error } after such a failure.             *)
(***************************************************************************)
C18_ApiFailureFallsBack ==
    \A p \in Procs :
        /\ proc[p].result # "error"
        /\ proc[p].api = "failed" =>
              proc[p].plant_data = [id |-> proc[p].plant_id, source |-> "gemini"]

\* an invocation whose call of the external API failed has created the
\* document from the data of the fallback
C18_Witness ==
    \E p \in Procs :
        /\ proc[p].api = "failed"
        /\ proc[p].result = "created"
        /\ db[proc[p].plant_id] = [id |-> proc[p].plant_id, source |-> "gemini"]

(***************************************************************************)
(* C20: whatever the interleaving of two invocations of set_plant for the  *)
(* same plant id, setDoc creates the document of that id at most once.     *)
(***************************************************************************)
C20_CreatedOnce == \A i \in PlantIds : setDocs[i] <= 1

(***************************************************************************)
(* C16: a PUT for a plant id whose document the route finds in Firestore   *)
(* is answered 409, and the request calls neither the external API nor     *)
(* set, so the document stays as it was.                                   *)
(***************************************************************************)
C16_Conflict ==
    \A q \in Requests :
        req[q].exists =>
            /\ req[q].pc = "done"
            /\ req[q].status = 409
            /\ req[q].apiCalls = 0
            /\ req[q].sets = 0

\* one request has created the document of an id and was answered 201, the
\* other then asked for the same id and was answered 409
C16_Witness ==
    \E q, r \in Requests :
        /\ req[q].status = 201 /\ req[r].status = 409
        /\ req[q].plantId = req[r].plantId
        /\ req[r].exists
        /\ putDb[req[r].plantId] = req[q].document

(***************************************************************************)
(* C17: every state generatePlantState returns is a map whose              *)
(* emotion_index is an integer from 0 to 5.                                *)
(***************************************************************************)
\* v is a state map with a valid emotion_index
ValidState(v) ==
    /\ v.type = "object"
    /\ \E i \in 1 .. Len(v.members) :
          /\ v.members[i].key = <<"e", "m", "o", "t", "i", "o", "n", "_", "i", "n", "d", "e", "x">>
          /\ v.members[i].val.type = "number"
          /\ v.members[i].val.num \in {0, 10, 20, 30, 40, 50}
          /\ \A j \in 1 .. Len(v.members) :
                v.members[j].key = v.members[i].key => j = i

C17_ValidEmotionIndex ==
    \A q \in Requests :
        \A i \in 1 .. Len(req[q].document.states) : ValidState(req[q].document.states[i])

(***************************************************************************)
(* C21: every byte a packing loop produces is an integer in 0..255: the    *)
(* running byte only ever has bits 0..7 set and starts from 0 at each row  *)
(* and after each flush, so each hex token has exactly two hex digits.     *)
(***************************************************************************)
IsByte(b) == b \in 0 .. 255

HexDigitSet == {HexDigits[i] : i \in 1 .. Len(HexDigits)}

\* the token of b is `0x` and two hexadecimal digits
TwoHexDigits(b) ==
    LET t == HexToken(b)
    IN /\ Len(t) = 4
       /\ t[1] = "0" /\ t[2] = "x"
       /\ t[3] \in HexDigitSet /\ t[4] \in HexDigitSet

\* what generateQrCArray pushes for row y when its running byte starts at 0
CArrayRowPushed(y) ==
    LET r == CArrayRow(data, width, y, 0, 0, <<>>)
    IN IF CArrayRowTail(width) THEN Append(r.bytes, r.byte) ELSE r.bytes

\* the running byte is a byte when the inner loop leaves row y, and is 0
\* there if the last column flushed it; the bytes of the row in the output
\* are the ones a running byte starting at 0 gives
C21_ByteRange ==
    /\ cDone =>
          /\ \A i \in 1 .. Len(cBytes) : IsByte(cBytes[i]) /\ TwoHexDigits(cBytes[i])
          /\ \A y \in Rows :
                LET r == CArrayRow(data, width, y, 0, 0, <<>>)
                IN /\ IsByte(r.byte)
                   /\ CArrayFlush(width - 1, width) => r.byte = 0
                   /\ RowBytes(cBytes, y) = CArrayRowPushed(y)
    /\ hexDone =>
          /\ \A i \in 1 .. Len(hexBytes) : IsByte(hexBytes[i]) /\ TwoHexDigits(hexBytes[i])
          /\ \A y \in Rows :
                LET r == HexRow(data, width, y, 0, 0, <<>>)
                IN /\ r.byte = 0
                   /\ RowBytes(hexBytes, y) = r.bytes

\* both loops have packed a 9 x 2 image, black but for the first pixel of
\* its second row: a full byte, then the byte after the flush, and the
\* second row starting over
C21_Witness ==
    /\ BothDone
    /\ width = 9 /\ height = 2
    /\ data[10] # 0 /\ \A i \in 1 .. 18 : (i # 10 => data[i] = 0)
    /\ cBytes = <<255, 128, 127, 128>>
    /\ hexBytes = <<255, 128, 127, 128>>

====
